---------------------------- MODULE Spec2Model ----------------------------
(***************************************************************************)
(* A model of uk_mcp_server.py: the weather code table, the station        *)
(* lookup over stations.json, the Met Office API client and the            *)
(* get_hourly_observations tool with its report formatter.                 *)
(*                                                                         *)
(* Python values are tagged records [t, v]:                                *)
(*   "none"  None                  "num"   an int                          *)
(*   "str"   a sequence of characters (one-character TLA+ strings; a       *)
(*           literal of the program text may be kept as one symbol)        *)
(*   "list"  a sequence of values  "obj"   a dict: key -> value            *)
(* A function call evaluates to an outcome [k, exc, v]: it returns v or    *)
(* raises the exception class exc.                                         *)
(***************************************************************************)
EXTENDS Integers, Sequences, FiniteSets, TLC

VARIABLES
    weather_codes,  \* the module-level dict WEATHER_CODES
    stations_file,  \* the contents of stations.json on disk
    met_office,     \* the upstream API: station id -> what a GET for it meets
    calls,          \* the tool calls: call id -> the locals of that call
    arg,            \* the argument(s) of the function being applied
    ret,            \* its outcome, once applied
    pc              \* "call" before the application, "done" after

vars == <<weather_codes, stations_file, met_office, calls, arg, ret, pc>>

----------------------------------------------------------------------------
(* Python values                                                           *)

PyNone == [t |-> "none", v |-> 0]
PyNum(n) == [t |-> "num", v |-> n]
PyStr(s) == [t |-> "str", v |-> s]
PyList(l) == [t |-> "list", v |-> l]
PyObj(f) == [t |-> "obj", v |-> f]
EmptyObj == PyObj(<<>>)

Return(x) == [k |-> "return", exc |-> "", v |-> x]
Raise(e) == [k |-> "raise", exc |-> e, v |-> PyNone]
\* An exception whose str(e) the program reads.
RaiseMsg(e, msg) == [k |-> "raise", exc |-> e, v |-> PyStr(msg)]

\* Sequencing: the rest of a block runs on the value of a step that returned;
\* an exception a step raised propagates.
Then(step, Rest(_)) == IF step.k = "raise" THEN step ELSE Rest(step.v)

\* try: body except caught: Handler
TryExcept(body, caught, Handler(_)) ==
    IF body.k = "raise" /\ body.exc \in caught THEN Handler(body) ELSE body

\* A literal of the program text, kept as one symbol.
Lit(s) == PyStr(<<s>>)

\* Python truthiness: None, 0, "", [] and {} are false.
Truthy(x) ==
    CASE x.t = "none" -> FALSE
      [] x.t = "num" -> x.v # 0
      [] x.t = "str" -> x.v # <<>>
      [] x.t = "list" -> x.v # <<>>
      [] x.t = "obj" -> DOMAIN x.v # {}

RECURSIVE SetToSeq(_)
SetToSeq(S) ==
    IF S = {} THEN <<>>
    ELSE LET e == CHOOSE e \in S : TRUE IN <<e>> \o SetToSeq(S \ {e})

RECURSIVE Concat(_)
Concat(ss) == IF ss = <<>> THEN <<>> ELSE Head(ss) \o Concat(Tail(ss))

\* sep.join(parts), on sequences of symbols
RECURSIVE Join(_, _)
Join(sep, parts) ==
    IF parts = <<>> THEN <<>>
    ELSE IF Len(parts) = 1 THEN parts[1]
    ELSE parts[1] \o sep \o Join(sep, Tail(parts))

DigitChars == <<"0", "1", "2", "3", "4", "5", "6", "7", "8", "9">>
IsDigit(c) == \E i \in 1..Len(DigitChars) : DigitChars[i] = c
DigitVal(c) == (CHOOSE i \in 1..Len(DigitChars) : DigitChars[i] = c) - 1

\* The decimal digits of a natural number.
RECURSIVE NatDigits(_)
NatDigits(n) ==
    IF n < Len(DigitChars) THEN <<DigitChars[n + 1]>>
    ELSE NatDigits(n \div Len(DigitChars)) \o <<DigitChars[(n % Len(DigitChars)) + 1]>>

IntDigits(n) == IF n < 0 THEN <<"-">> \o NatDigits(-n) ELSE NatDigits(n)

\* str(x) / the rendering of {x} in an f-string. The repr of a str inside a
\* container is quoted; escapes inside such a str are not modelled.
RECURSIVE PyRepr(_)
PyRepr(x) ==
    CASE x.t = "none" -> <<"None">>
      [] x.t = "num" -> IntDigits(x.v)
      [] x.t = "str" -> <<"'">> \o x.v \o <<"'">>
      [] x.t = "list" ->
            <<"[">> \o Join(<<", ">>, [i \in 1..Len(x.v) |-> PyRepr(x.v[i])]) \o <<"]">>
      [] x.t = "obj" ->
            LET ks == SetToSeq(DOMAIN x.v) IN
            <<"{">> \o Join(<<", ">>, [i \in 1..Len(ks) |->
                        <<"'", ks[i], "'", ": ">> \o PyRepr(x.v[ks[i]])]) \o <<"}">>

str(x) == IF x.t = "str" THEN x.v ELSE PyRepr(x)

\* s.strip() on whitespace
RECURSIVE LStrip(_)
LStrip(s) == IF s # <<>> /\ Head(s) = " " THEN LStrip(Tail(s)) ELSE s
RECURSIVE RStrip(_)
RStrip(s) ==
    IF s # <<>> /\ s[Len(s)] = " " THEN RStrip(SubSeq(s, 1, Len(s) - 1)) ELSE s

\* The body of an integer literal: digits, single underscores between digits.
WellFormedDigits(s) ==
    /\ s # <<>>
    /\ \A i \in 1..Len(s) : IsDigit(s[i]) \/ s[i] = "_"
    /\ IsDigit(s[1]) /\ IsDigit(s[Len(s)])
    /\ \A i \in 1..(Len(s) - 1) : ~(s[i] = "_" /\ s[i + 1] = "_")

RECURSIVE DigitsValue(_, _)
DigitsValue(s, acc) ==
    IF s = <<>> THEN acc
    ELSE IF Head(s) = "_" THEN DigitsValue(Tail(s), acc)
    ELSE DigitsValue(Tail(s), acc * Len(DigitChars) + DigitVal(Head(s)))

\* int(x): an int is itself; a str is stripped, then an optional sign and a
\* digit body; None, list and dict raise TypeError.
int(x) ==
    CASE x.t = "num" -> Return(x)
      [] x.t = "str" ->
            LET s == RStrip(LStrip(x.v))
                signed == s # <<>> /\ Head(s) \in {"+", "-"}
                body == IF signed THEN Tail(s) ELSE s
            IN  IF WellFormedDigits(body)
                THEN Return(PyNum(IF signed /\ Head(s) = "-"
                                  THEN -DigitsValue(body, 0)
                                  ELSE DigitsValue(body, 0)))
                ELSE RaiseMsg("ValueError",
                        <<"invalid literal for int() with base 10: ">> \o PyRepr(x))
      [] OTHER -> Raise("TypeError")

\* d.get(key, default) on a dict d; any other receiver has no attribute get.
DictGet(d, key, default) ==
    IF d.t # "obj" THEN Raise("AttributeError")
    ELSE IF key \in DOMAIN d.v THEN Return(d.v[key]) ELSE Return(default)

\* x[key] with a str key: KeyError on a dict without it; a str or a list
\* takes integer indices only and None or an int is not subscriptable.
GetItem(x, key) ==
    IF x.t = "obj"
    THEN IF key \in DOMAIN x.v THEN Return(x.v[key])
         ELSE RaiseMsg("KeyError", <<"'", key, "'">>)
    ELSE Raise("TypeError")

\* iter(x): the items of a list, the characters of a str, the keys of a
\* dict (a key is kept as one symbol); None and int are not iterable.
Iter(x) ==
    CASE x.t = "list" -> Return(x.v)
      [] x.t = "str" -> Return([i \in 1..Len(x.v) |-> PyStr(<<x.v[i]>>)])
      [] x.t = "obj" ->
            LET ks == SetToSeq(DOMAIN x.v) IN
            Return([i \in 1..Len(ks) |-> Lit(ks[i])])
      [] OTHER -> Raise("TypeError")

----------------------------------------------------------------------------
(* The weather code table and get_weather_description                      *)

CodeDescriptions ==
    << "Clear night", "Sunny day", "Partly cloudy (night)",
       "Partly cloudy (day)", "Not used", "Mist", "Fog", "Cloudy", "Overcast",
       "Light rain shower (night)", "Light rain shower (day)", "Drizzle",
       "Light rain", "Heavy rain shower (night)", "Heavy rain shower (day)",
       "Heavy rain", "Sleet shower (night)", "Sleet shower (day)", "Sleet",
       "Hail shower (night)", "Hail shower (day)", "Hail",
       "Light snow shower (night)", "Light snow shower (day)", "Light snow",
       "Heavy snow shower (night)", "Heavy snow shower (day)", "Heavy snow",
       "Thunder shower (night)", "Thunder shower (day)", "Thunder" >>

\* The dict has int keys 0..30 and the one str key "NA".
WEATHER_CODES ==
    [ints |-> [c \in 0..(Len(CodeDescriptions) - 1) |-> Lit(CodeDescriptions[c + 1])],
     strs |-> (<<"N", "A">> :> Lit("Not available"))]

UnknownCode(code) == PyStr(<<"Unknown code: ">> \o str(code))

\* WEATHER_CODES.get(key, default), by the type of the key
CodesGet(key, default) ==
    CASE key.t = "num" ->
            IF key.v \in DOMAIN weather_codes.ints THEN weather_codes.ints[key.v] ELSE default
      [] key.t = "str" ->
            IF key.v \in DOMAIN weather_codes.strs THEN weather_codes.strs[key.v] ELSE default

\* except (ValueError, TypeError)
DescribeCaught == {"ValueError", "TypeError"}

\* A plausible slip: no fallback to the str key when int() fails.
get_weather_description_nofallback(code) ==
    TryExcept(Then(int(code), LAMBDA i : Return(CodesGet(i, UnknownCode(code)))),
              DescribeCaught,
              LAMBDA e : Return(UnknownCode(code)))

\* try: return WEATHER_CODES.get(int(code), f"Unknown code: {code}")
\* except (ValueError, TypeError):
\*     return WEATHER_CODES.get(str(code), f"Unknown code: {code}")
get_weather_description(code) ==
    TryExcept(Then(int(code), LAMBDA i : Return(CodesGet(i, UnknownCode(code)))),
              DescribeCaught,
              LAMBDA e : Return(CodesGet(PyStr(str(code)), UnknownCode(code))))

----------------------------------------------------------------------------
(* stations.json and lookup_station_id                                     *)

FileMissing == [state |-> "missing", v |-> PyNone]
FileUndecodable == [state |-> "undecodable", v |-> PyNone]  \* bytes that are no text
FileGarbage == [state |-> "garbage", v |-> PyNone]          \* text that is no JSON
FileJson(x) == [state |-> "json", v |-> x]

\* with open("stations.json", "r") as f: data = json.load(f)
load_stations(file) ==
    CASE file.state = "missing" -> Raise("FileNotFoundError")
      [] file.state = "undecodable" -> Raise("UnicodeDecodeError")
      [] file.state = "garbage" -> Raise("JSONDecodeError")
      [] file.state = "json" -> Return(file.v)

LowerOf == ("A" :> "a") @@ ("B" :> "b")
LowerChar(c) == IF c \in DOMAIN LowerOf THEN LowerOf[c] ELSE c

\* x.lower(): only a str has it.
lower(x) ==
    IF x.t = "str" THEN Return(PyStr([i \in 1..Len(x.v) |-> LowerChar(x.v[i])]))
    ELSE Raise("AttributeError")

\* needle in hay, on str
Contains(hay, needle) ==
    \E i \in 0..(Len(hay) - Len(needle)) :
        SubSeq(hay, i + 1, i + Len(needle)) = needle

Fallthrough == [k |-> "fallthrough", exc |-> "", v |-> PyNone]

\* for location in locations: if location["name"].lower() == query_name.lower():
\*     return location["id"]
RECURSIVE ExactLoop(_, _)
ExactLoop(locations, query_name) ==
    IF locations = <<>> THEN Fallthrough
    ELSE Then(GetItem(Head(locations), "name"), LAMBDA name :
         Then(lower(name), LAMBDA low :
         Then(lower(query_name), LAMBDA q :
            IF low = q THEN GetItem(Head(locations), "id")
            ELSE ExactLoop(Tail(locations), query_name))))

\* for location in locations: if query_name.lower() in location["name"].lower():
\*     return location["id"]
RECURSIVE PartialLoop(_, _)
PartialLoop(locations, query_name) ==
    IF locations = <<>> THEN Fallthrough
    ELSE Then(lower(query_name), LAMBDA q :
         Then(GetItem(Head(locations), "name"), LAMBDA name :
         Then(lower(name), LAMBDA low :
            IF Contains(low.v, q.v) THEN GetItem(Head(locations), "id")
            ELSE PartialLoop(Tail(locations), query_name))))

\* A fallen-through loop lets the next statement run.
OrElse(loop, next) == IF loop.k = "fallthrough" THEN next ELSE loop

\* A plausible slip: the substring pass runs before the exact pass.
MatchLoops_partial_first(locations, query_name) ==
    OrElse(PartialLoop(locations, query_name),
           OrElse(ExactLoop(locations, query_name), Return(PyNone)))

\* The exact pass, then the substring pass, then return None.
MatchLoops(locations, query_name) ==
    OrElse(ExactLoop(locations, query_name),
           OrElse(PartialLoop(locations, query_name), Return(PyNone)))

\* The body of the try block.
lookup_try(file, query_name) ==
    Then(load_stations(file), LAMBDA data :
    Then(DictGet(data, "Locations", EmptyObj), LAMBDA locs :
    Then(DictGet(locs, "Location", PyList(<<>>)), LAMBDA locations :
    Then(Iter(locations), LAMBDA items :
        MatchLoops(items, query_name)))))

\* except (FileNotFoundError, json.JSONDecodeError, KeyError)
LookupCaught == {"FileNotFoundError", "JSONDecodeError", "KeyError"}

lookup_station_id(file, query_name) ==
    TryExcept(lookup_try(file, query_name), LookupCaught, LAMBDA e : Return(PyNone))

----------------------------------------------------------------------------
(* The report formatter of get_hourly_observations                         *)

MinutesPerHour == 60

\* date.replace("Z", ""): every "Z" goes; only a str has replace.
replace_Z(x) ==
    IF x.t = "str" THEN Return(PyStr(SelectSeq(x.v, LAMBDA c : c # "Z")))
    ELSE Raise("AttributeError")

\* A plausible slip: no zero padding.
Format02d_unpadded(n) == IntDigits(n)

\* f"{n:02d}": at least two characters, zero-padded, the sign counted.
Format02d(n) ==
    IF n < 0 THEN IntDigits(n)
    ELSE IF n < Len(DigitChars) THEN <<"0">> \o NatDigits(n)
    ELSE NatDigits(n)

\* time_minutes // 60, time_minutes % 60, f"{hours:02d}:{minutes:02d}"
TimeStr(time_minutes) ==
    LET hours == time_minutes \div MinutesPerHour
        minutes == time_minutes % MinutesPerHour
    IN  Format02d(hours) \o <<":">> \o Format02d(minutes)

\* A plausible slip: one placeholder for every field.
FieldDefault_same(key) == Lit("N/A")

\* rep.get(key, "N/A"), and rep.get("W", "NA") for the weather code
FieldDefault(key) == IF key = "W" THEN PyStr(<<"N", "A">>) ELSE Lit("N/A")

Field(rep, key) == DictGet(rep, key, FieldDefault(key)).v

\* The block of one hourly report.
ObservationBlock(rep) ==
    Then(GetItem(rep, "$"), LAMBDA t :
    Then(int(t), LAMBDA time_minutes :
    Then(get_weather_description(Field(rep, "W")), LAMBDA weather_desc :
      Return(
        <<"\n">> \o TimeStr(time_minutes.v)
        \o <<" - Temp: ">> \o str(Field(rep, "T"))
        \o <<"°C, Weather: ">> \o str(weather_desc)
        \o <<"\n         Humidity: ">> \o str(Field(rep, "H"))
        \o <<"%, Pressure: ">> \o str(Field(rep, "P"))
        \o <<"hPa\n         Wind: ">> \o str(Field(rep, "S"))
        \o <<"mph from ">> \o str(Field(rep, "D"))
        \o <<" (gusts ">> \o str(Field(rep, "G"))
        \o <<"mph)\n         Visibility: ">> \o str(Field(rep, "V"))
        \o <<"m, Dew Point: ">> \o str(Field(rep, "Dp"))
        \o <<"°C">>))))

\* for rep in period["Rep"]: observations.append(observation)
RECURSIVE RepLoop(_, _)
RepLoop(reps, observations) ==
    IF reps = <<>> THEN Return(observations)
    ELSE Then(ObservationBlock(Head(reps)), LAMBDA observation :
            RepLoop(Tail(reps), Append(observations, observation)))

\* for period in location["Period"]: the date header, then the reports
RECURSIVE PeriodLoop(_, _)
PeriodLoop(periods, observations) ==
    IF periods = <<>> THEN Return(observations)
    ELSE Then(GetItem(Head(periods), "value"), LAMBDA date :
         Then(replace_Z(date), LAMBDA date_formatted :
         Then(GetItem(Head(periods), "Rep"), LAMBDA rep :
         Then(Iter(rep), LAMBDA reps :
         Then(RepLoop(reps, Append(observations,
                        <<"\n=== ">> \o date_formatted.v \o <<" ===">>)),
              LAMBDA done : PeriodLoop(Tail(periods), done))))))

\* The body of the try block: the text of the report.
format_try(data) ==
    Then(GetItem(data, "SiteRep"), LAMBDA site_rep :
    Then(GetItem(site_rep, "DV"), LAMBDA dv :
    Then(GetItem(dv, "Location"), LAMBDA location :
    Then(GetItem(location, "name"), LAMBDA location_name :
    Then(GetItem(location, "Period"), LAMBDA period :
    Then(Iter(period), LAMBDA periods :
    Then(PeriodLoop(periods,
            << <<"Hourly observations for ">> \o str(location_name) \o <<":">> >>),
         LAMBDA observations : Return(PyStr(Join(<<"\n">>, observations))))))))))

\* except (KeyError, IndexError, ValueError) as e
FormatCaught == {"KeyError", "IndexError", "ValueError"}

ParseFailure(e) ==
    PyStr(<<"Failed to parse the observations data: ">>
          \o (IF e.v.t = "str" THEN e.v.v ELSE <<>>)
          \o <<". The structure might have changed or the location is invalid.">>)

format_observations(data) ==
    TryExcept(format_try(data), FormatCaught, LAMBDA e : Return(ParseFailure(e)))

UnableToFetch == Lit("Unable to fetch observations data for this location.")

\* if not data: return "Unable to fetch ..."; then the try block
finish_call(data) ==
    IF ~Truthy(data) THEN Return(UnableToFetch) ELSE format_observations(data)

----------------------------------------------------------------------------
(* make_met_office_request                                                 *)

MET_OFFICE_API_BASE == "http://datapoint.metoffice.gov.uk/public/data/val"
MET_OFFICE_API_KEY == "MET_OFFICE_API_KEY"      \* os.getenv("MET_OFFICE_API_KEY")
TIMEOUT_SECONDS == 30

\* What a GET meets: a transport fault (the exception httpx raises) or a
\* response with a status and a body; a body is JSON text or is not.
Fault(exc) == [kind |-> "fault", exc |-> exc, status |-> 0, body |-> FileGarbage]
Response(status, body) == [kind |-> "response", exc |-> "", status |-> status, body |-> body]

\* if params is None: params = {}; params.setdefault("key", MET_OFFICE_API_KEY)
request_params(params) ==
    LET given == IF params = PyNone THEN <<>> ELSE params.v IN
    IF "key" \in DOMAIN given THEN given ELSE ("key" :> MET_OFFICE_API_KEY) @@ given

\* client.get(url, params=params, timeout=30.0)
http_get(url, params) == [url |-> url, params |-> request_params(params), timeout |-> TIMEOUT_SECONDS]

\* response.raise_for_status(): any status outside 2xx raises
is_success(status) == status \in 200..299

\* e.response.text
body_text(body) == IF body.state = "json" THEN PyRepr(body.v) ELSE <<"<html>">>

\* The try block: await client.get, raise_for_status, response.json()
request_try(upstream) ==
    IF upstream.kind = "fault" THEN RaiseMsg(upstream.exc, <<upstream.exc>>)
    ELSE IF ~is_success(upstream.status) THEN Raise("HTTPStatusError")
    ELSE IF upstream.body.state # "json"
         THEN RaiseMsg("JSONDecodeError", <<"Expecting value: line 1 column 1 (char 0)">>)
    ELSE Return(upstream.body.v)

\* A plausible slip: raise_for_status() is not called.
handle_response_unchecked(upstream) ==
    LET r == IF upstream.kind = "fault" THEN RaiseMsg(upstream.exc, <<upstream.exc>>)
             ELSE IF upstream.body.state # "json" THEN RaiseMsg("JSONDecodeError", <<"Expecting value">>)
             ELSE Return(upstream.body.v)
    IN  IF r.k = "return" THEN [ret |-> r, printed |-> <<>>]
        ELSE [ret |-> Return(PyNone), printed |-> << <<"An error occurred: ">> \o r.v.v >>]

\* except httpx.HTTPStatusError: print the status and the body, return None
\* except Exception: print the error, return None
handle_response(upstream) ==
    LET r == request_try(upstream) IN
    IF r.k = "return" THEN [ret |-> r, printed |-> <<>>]
    ELSE IF r.exc = "HTTPStatusError"
         THEN [ret |-> Return(PyNone),
               printed |-> << <<"HTTP Error: ">> \o IntDigits(upstream.status)
                               \o <<" - ">> \o body_text(upstream.body) >>]
    ELSE [ret |-> Return(PyNone), printed |-> << <<"An error occurred: ">> \o r.v.v >>]

\* The whole call: the GET it sends, what it prints, what it returns.
make_met_office_request(url, params, upstream) ==
    [sent |-> <<http_get(url, params)>>,
     printed |-> handle_response(upstream).printed,
     ret |-> handle_response(upstream).ret]

----------------------------------------------------------------------------
(* get_hourly_observations                                                 *)

NotFoundMessage(name) ==
    PyStr(<<"Location '">> \o str(name)
          \o <<"' not found. Please check the spelling or try a different location name.">>)

\* A plausible slip: the check of the resolver's result is left out.
resolution_missed_never(locid) == FALSE

\* if not locid
resolution_missed(locid) == ~Truthy(locid)

\* url = f"{MET_OFFICE_API_BASE}/wxobs/all/json/{locid}"
station_url(locid) == <<MET_OFFICE_API_BASE, "/wxobs/all/json/">> \o str(locid)

\* params = {"res": "hourly"}
HourlyParams == PyObj("res" :> "hourly")

\* What the API answers for a station id; an id it does not know is a 404.
UpstreamFor(responses, locid) ==
    IF locid.t = "str" /\ locid.v \in DOMAIN responses THEN responses[locid.v]
    ELSE Response(404, FileGarbage)

\* One call run on its own, start to end.
get_hourly_observations(name, file, responses) ==
    Then(lookup_station_id(file, name), LAMBDA locid :
        IF resolution_missed(locid) THEN Return(NotFoundMessage(name))
        ELSE Then(make_met_office_request(station_url(locid), HourlyParams,
                                          UpstreamFor(responses, locid)).ret,
                  LAMBDA data : finish_call(data)))

----------------------------------------------------------------------------
(* Inputs                                                                  *)

MaxCodeLen == 3     \* the longest weather code string tried
MaxNameLen == 2     \* the longest station name tried
MaxQueryLen == 1    \* the longest query tried
MaxRecords == 2     \* the most records in a well-formed directory
MaxPeriods == 2     \* the most day periods in a payload
MaxReps == 2        \* the most hourly reports in a period
MaxMissing == 2     \* the most fields missing from one hourly report
MaxCalls == 2       \* the most tool calls in flight together

\* All sequences over S of length at most n.
SeqsUpTo(S, n) == UNION {[1..m -> S] : m \in 0..n}

CodeChars == {"0", "1", "3", "9", "-", "+", " ", "_", "N", "A", "."}
CodeInts == (-3)..(Len(CodeDescriptions) + 2)
CodeInputs ==
    {PyNum(n) : n \in CodeInts} \cup {PyStr(s) : s \in SeqsUpTo(CodeChars, MaxCodeLen)}

NameChars == {"a", "A", "b"}
Names == SeqsUpTo(NameChars, MaxNameLen)
Queries == SeqsUpTo(NameChars, MaxQueryLen)

\* The record at position i of the file carries the id str(i).
Record(name, i) == PyObj(("name" :> PyStr(name)) @@ ("id" :> PyStr(NatDigits(i))))
Directory(records) ==
    FileJson(PyObj("Locations" :> PyObj("Location" :> PyList(records))))

\* Records that are not {"name": str, "id": ...}.
BadRecords ==
    { PyObj("id" :> Lit("7")),                      \* no "name"
      PyObj("name" :> Lit("a")),                    \* no "id"
      PyObj(("name" :> PyNone) @@ ("id" :> Lit("7"))),
      PyObj(("name" :> PyNum(5)) @@ ("id" :> Lit("7"))),
      Lit("a"), PyNum(5), PyNone, PyList(<<>>) }

MalformedFiles ==
    {FileMissing, FileUndecodable, FileGarbage}
    \cup {FileJson(x) : x \in {PyList(<<>>), PyList(<<Record(<<"a">>, 1)>>),
                               Lit("a"), PyNum(5), PyNone}}
    \cup {FileJson(PyObj("Locations" :> x)) :
            x \in {PyList(<<>>), Lit("a"), PyNum(5), PyNone}}
    \cup {FileJson(PyObj("Locations" :> PyObj("Location" :> x))) :
            x \in {PyNone, PyNum(5), Lit("a"), PyStr(<<>>), EmptyObj,
                   Record(<<"a">>, 1)}}
    \cup {Directory(recs) :
            recs \in {<<bad>> : bad \in BadRecords}
                 \cup {<<Record(n, 1), bad>> : n \in {<<"a">>, <<"b">>}, bad \in BadRecords}
                 \cup {<<bad, Record(n, 2)>> : n \in {<<"a">>, <<"b">>}, bad \in BadRecords}}

\* Directories with no record at all.
EmptyFiles ==
    {FileJson(EmptyObj), FileJson(PyObj("Locations" :> EmptyObj)), Directory(<<>>)}

\* The site-report schema: envelope -> data view -> location -> periods -> reports.
MkData(site_rep) == PyObj("SiteRep" :> site_rep)
MkSiteRep(dv) == PyObj("DV" :> dv)
MkDV(location) == PyObj("Location" :> location)
MkLocation(name, period) == PyObj(("name" :> name) @@ ("Period" :> period))
MkPeriod(value, rep) == PyObj(("value" :> value) @@ ("Rep" :> rep))
Payload(name, period) == MkData(MkSiteRep(MkDV(MkLocation(name, period))))

FieldKeys == {"T", "H", "P", "S", "G", "D", "W", "V", "Dp"}
SampleFields ==
    [T |-> PyStr(<<"1", "4", ".", "2">>), H |-> PyStr(<<"8", "1", ".", "5">>),
     P |-> PyStr(<<"1", "0", "1", "2">>), S |-> PyStr(<<"9">>),
     G |-> PyStr(<<"2", "1">>), D |-> PyStr(<<"S", "W">>), W |-> PyStr(<<"7">>),
     V |-> PyStr(<<"3", "0", "0", "0", "0">>), Dp |-> PyStr(<<"1", "1", ".", "0">>)]

\* An hourly report at `time` lacking the fields in `missing`.
MkRep(time, missing) ==
    PyObj([key \in (FieldKeys \ missing) \cup {"$"} |->
            IF key = "$" THEN time ELSE SampleFields[key]])

\* The date of period i and the time of report j.
DateOf(i) == PyStr(<<"2", "0", "2", "5", "-", "0", "8", "-", "0">> \o NatDigits(i) \o <<"Z">>)
HourOf(j) == PyStr(NatDigits(MinutesPerHour * j))
StationName == PyStr(<<"C", "a", "r", "d", "i", "n", "h", "a", "m">>)

\* np periods of nr reports; the reports selected by `where` lack `missing`.
FieldsPayload(np, nr, where, missing) ==
    Payload(StationName,
        PyList([i \in 1..np |-> MkPeriod(DateOf(i),
            PyList([j \in 1..nr |->
                MkRep(HourOf(j), IF <<i, j>> \in where THEN missing ELSE {})]))]))

\* One period with one report whose time field is `time`.
TimePayload(time) == Payload(StationName, PyList(<<MkPeriod(DateOf(1), PyList(<<MkRep(time, {})>>))>>))

TimeInts ==
    (-(MinutesPerHour + 1))..(24 * MinutesPerHour + MinutesPerHour) \cup {100 * MinutesPerHour}
TimeValues ==
    {PyNum(m) : m \in TimeInts} \cup {PyStr(IntDigits(m)) : m \in TimeInts}
    \cup {PyStr(<<"0">> \o NatDigits(m)) : m \in {0, 5, 90}}

\* Values of the wrong type for a position that holds an object or a list.
WrongValues ==
    { PyNone, PyNum(5), PyNum(0), Lit("x"), PyStr(<<>>), PyList(<<>>),
      PyList(<<PyNum(5)>>), PyList(<<Lit("x")>>), PyList(<<PyNone>>),
      EmptyObj, PyObj("other" :> PyNum(1)) }

GoodRep == MkRep(HourOf(1), {})
GoodPeriod == MkPeriod(DateOf(1), PyList(<<GoodRep>>))

\* Payloads that break the schema at one position.
MalformedPayloads ==
    {w \in WrongValues : Truthy(w)}
    \cup {MkData(w) : w \in WrongValues}
    \cup {MkData(MkSiteRep(w)) : w \in WrongValues}
    \cup {MkData(MkSiteRep(MkDV(w))) : w \in WrongValues}
    \cup {MkData(MkSiteRep(MkDV(PyObj("Period" :> PyList(<<GoodPeriod>>)))))}
    \cup {MkData(MkSiteRep(MkDV(PyObj("name" :> StationName))))}
    \cup {Payload(w, PyList(<<GoodPeriod>>)) : w \in WrongValues}
    \cup {Payload(StationName, w) : w \in WrongValues \cup {GoodPeriod}}
    \cup {Payload(StationName, PyList(<<GoodPeriod, w>>)) : w \in WrongValues}
    \cup {Payload(StationName, PyList(<<PyObj("Rep" :> PyList(<<GoodRep>>))>>))}
    \cup {Payload(StationName, PyList(<<PyObj("value" :> DateOf(1))>>))}
    \cup {Payload(StationName, PyList(<<MkPeriod(w, PyList(<<GoodRep>>))>>)) : w \in WrongValues}
    \cup {Payload(StationName, PyList(<<MkPeriod(DateOf(1), w)>>)) : w \in WrongValues \cup {GoodRep}}
    \cup {Payload(StationName, PyList(<<MkPeriod(DateOf(1), PyList(<<GoodRep, w>>))>>)) :
            w \in WrongValues}
    \cup {Payload(StationName, PyList(<<MkPeriod(DateOf(1),
                PyList(<<GoodRep, PyObj("T" :> SampleFields["T"])>>))>>))}
    \cup {TimePayload(w) : w \in WrongValues \cup {PyStr(<<"1", "2", ":", "0", "0">>),
                                                  PyStr(<<"9", "0", ".", "5">>)}}

NoCalls == <<>>
NoUpstream == <<>>

----------------------------------------------------------------------------
(* get_weather_description applied to one code                             *)

InitDescribe ==
    /\ weather_codes = WEATHER_CODES
    /\ stations_file = FileMissing
    /\ met_office = NoUpstream
    /\ calls = NoCalls
    /\ arg \in CodeInputs
    /\ ret = Return(PyNone)
    /\ pc = "call"

Describe ==
    /\ pc = "call"
    /\ ret' = get_weather_description(arg)
    /\ pc' = "done"
    /\ UNCHANGED <<weather_codes, stations_file, met_office, calls, arg>>

NextDescribe == Describe

SpecDescribe == InitDescribe /\ [][NextDescribe]_vars

----------------------------------------------------------------------------
(* lookup_station_id applied to one query over one stations.json           *)

InitLookup ==
    /\ weather_codes = WEATHER_CODES
    /\ \/ \E m \in 0..MaxRecords : \E names \in [1..m -> Names] :
              stations_file = Directory([i \in 1..m |-> Record(names[i], i)])
       \/ stations_file \in MalformedFiles \cup EmptyFiles
    /\ met_office = NoUpstream
    /\ calls = NoCalls
    /\ arg \in {PyStr(q) : q \in Queries}
    /\ ret = Return(PyNone)
    /\ pc = "call"

Lookup ==
    /\ pc = "call"
    /\ ret' = lookup_station_id(stations_file, arg)
    /\ pc' = "done"
    /\ UNCHANGED <<weather_codes, stations_file, met_office, calls, arg>>

NextLookup == Lookup

SpecLookup == InitLookup /\ [][NextLookup]_vars

----------------------------------------------------------------------------
(* Claims about get_weather_description                                    *)

Spaces(n) == [i \in 1..n |-> " "]
Zeros(n) == [i \in 1..n |-> "0"]

\* d with an underscore after each position in gaps
Underscored(d, gaps) ==
    Concat([i \in 1..Len(d) |-> IF i \in gaps THEN <<d[i], "_">> ELSE <<d[i]>>])

\* The strings of at most MaxCodeLen characters that denote the integer n >= 0:
\* its decimal digits, with leading zeros, with single underscores between
\* digits, with a sign, with blanks around.
Numerals(n) ==
    { s \in { Spaces(a) \o sign \o Underscored(Zeros(z) \o NatDigits(n), gaps) \o Spaces(b) :
                a \in 0..MaxCodeLen, b \in 0..MaxCodeLen, z \in 0..MaxCodeLen,
                gaps \in SUBSET (1..MaxCodeLen),
                sign \in {<<>>, <<"+">>} \cup (IF n = 0 THEN {<<"-">>} ELSE {}) }
        : Len(s) <= MaxCodeLen /\ RStrip(s)[Len(RStrip(s))] # "_" }

DocumentedCodes == 0..(Len(CodeDescriptions) - 1)
Documented(n) == Lit(CodeDescriptions[n + 1])
NumeralTable == [n \in DocumentedCodes |-> Numerals(n)]
Sentinel == <<"N", "A">>

\* C4: get_weather_description returns the documented description for every
\* integer code 0..30, for every numeric string denoting such an integer and
\* for the sentinel "NA"; for every other integer or string it returns
\* "Unknown code: " followed by the text of the input; it never raises and
\* leaves the code table as it was.
C4_Describe ==
    pc = "done" =>
        /\ ret.k = "return"
        /\ weather_codes = WEATHER_CODES
        /\ IF arg.t = "num"
           THEN IF arg.v \in DocumentedCodes
                THEN ret.v = Documented(arg.v)
                ELSE ret.v = PyStr(<<"Unknown code: ">> \o IntDigits(arg.v))
           ELSE IF \E n \in DocumentedCodes : arg.v \in NumeralTable[n]
                THEN \E n \in DocumentedCodes : arg.v \in NumeralTable[n] /\ ret.v = Documented(n)
                ELSE IF arg.v = Sentinel
                     THEN ret.v = Lit("Not available")
                     ELSE ret.v = PyStr(<<"Unknown code: ">> \o arg.v)

\* An unknown numeric string, the sentinel and a padded numeral have been described.
C4_Witness ==
    /\ pc = "done"
    /\ \/ arg = PyStr(<<"3", "1">>) /\ ret.v = PyStr(<<"Unknown code: ", "3", "1">>)

----------------------------------------------------------------------------
(* Claims about lookup_station_id                                          *)

SameLetter(c, d) == c = d \/ {c, d} = {"a", "A"} \/ {c, d} = {"b", "B"}
EqualCI(s, t) == Len(s) = Len(t) /\ \A i \in 1..Len(s) : SameLetter(s[i], t[i])
ContainsCI(hay, needle) ==
    \E i \in 0..(Len(hay) - Len(needle)) :
        EqualCI(SubSeq(hay, i + 1, i + Len(needle)), needle)

IsObjWith(x, keys) == x.t = "obj" /\ keys \subseteq DOMAIN x.v
HasLocationList(file) ==
    /\ file.state = "json"
    /\ IsObjWith(file.v, {"Locations"})
    /\ IsObjWith(file.v.v["Locations"], {"Location"})
    /\ file.v.v["Locations"].v["Location"].t = "list"
RecordsOf(file) == file.v.v["Locations"].v["Location"].v

\* {"Locations": {"Location": [{"name": str, "id": ...}, ...]}}
WellFormedFile(file) ==
    /\ HasLocationList(file)
    /\ \A i \in 1..Len(RecordsOf(file)) :
          /\ IsObjWith(RecordsOf(file)[i], {"name", "id"})
          /\ RecordsOf(file)[i].v["name"].t = "str"

Least(S) == CHOOSE i \in S : \A j \in S : i <= j

\* C3: over a well-formed directory the lookup returns the id of the first
\* record whose name equals the query case-insensitively, else the id of the
\* first record whose name contains the query case-insensitively, else None.
\* The result is this function of the directory and the query, so two calls
\* with the same query over the same directory return the same result.
C3_FirstExactThenFirstSubstring ==
    (pc = "done" /\ WellFormedFile(stations_file)) =>
        LET recs == RecordsOf(stations_file)
            exact == {i \in 1..Len(recs) : EqualCI(recs[i].v["name"].v, arg.v)}
            sub == {i \in 1..Len(recs) : ContainsCI(recs[i].v["name"].v, arg.v)}
        IN  ret = IF exact # {} THEN Return(recs[Least(exact)].v["id"])
                  ELSE IF sub # {} THEN Return(recs[Least(sub)].v["id"])
                  ELSE Return(PyNone)

\* The exact match at position 2 wins over the earlier record that contains
\* the query as a proper substring.
C3_Witness ==
    /\ pc = "done"
    /\ stations_file = Directory(<<Record(<<"a", "b">>, 1), Record(<<"A">>, 2)>>)
    /\ arg = PyStr(<<"a">>)
    /\ ret = Return(PyStr(<<"2">>))

\* The files C2 names: missing, not valid JSON, JSON of the wrong shape, a
\* record lacking "name" or "id", an empty location list.
WrongShape(file) ==
    /\ file.state = "json"
    /\ \/ file.v.t # "obj"
       \/ "Locations" \in DOMAIN file.v.v /\ file.v.v["Locations"].t # "obj"
       \/ /\ IsObjWith(file.v, {"Locations"})
          /\ IsObjWith(file.v.v["Locations"], {"Location"})
          /\ LET loc == file.v.v["Locations"].v["Location"] IN
             \/ loc.t # "list"
             \/ \E i \in 1..Len(loc.v) : loc.v[i].t # "obj"
RecordLacksKey(file) ==
    /\ HasLocationList(file)
    /\ \E i \in 1..Len(RecordsOf(file)) :
          RecordsOf(file)[i].t = "obj" /\ ~({"name", "id"} \subseteq DOMAIN RecordsOf(file)[i].v)
EmptyDirectory(file) ==
    \/ file \in EmptyFiles
    \/ HasLocationList(file) /\ RecordsOf(file) = <<>>

\* C2: lookup_station_id never raises and returns None for every query when
\* stations.json is missing, is not valid JSON, has the wrong shape, has a
\* record lacking "name" or "id", or holds an empty location list.
C2_MalformedIsNotFound ==
    (/\ pc = "done"
     /\ \/ stations_file.state \in {"missing", "undecodable", "garbage"}
        \/ WrongShape(stations_file)
        \/ RecordLacksKey(stations_file)
        \/ EmptyDirectory(stations_file))
    => ret = Return(PyNone)

----------------------------------------------------------------------------
(* The formatter applied to one payload handed back by the API client      *)

InitFormat ==
    /\ weather_codes = WEATHER_CODES
    /\ stations_file = FileMissing
    /\ met_office = NoUpstream
    /\ calls = NoCalls
    /\ \/ \E np \in 1..MaxPeriods, nr \in 1..MaxReps :
            \E i \in 1..np, j \in 1..nr :
            \E missing \in {m \in SUBSET FieldKeys : Cardinality(m) <= MaxMissing} :
                \/ arg = FieldsPayload(np, nr, {<<i, j>>}, missing)
                \/ arg = FieldsPayload(np, nr, (1..np) \X (1..nr), missing)
       \/ arg \in {TimePayload(t) : t \in TimeValues}
       \/ arg \in MalformedPayloads
    /\ ret = Return(PyNone)
    /\ pc = "call"

Format ==
    /\ pc = "call"
    /\ ret' = finish_call(arg)
    /\ pc' = "done"
    /\ UNCHANGED <<weather_codes, stations_file, met_office, calls, arg>>

NextFormat == Format

SpecFormat == InitFormat /\ [][NextFormat]_vars

----------------------------------------------------------------------------
(* Claims about the formatter                                              *)

Count(text, sym) == Cardinality({k \in 1..Len(text) : text[k] = sym})
\* The position of the n-th occurrence of sym in text.
Nth(text, sym, n) ==
    CHOOSE k \in 1..Len(text) :
        text[k] = sym /\ Cardinality({h \in 1..k : text[h] = sym}) = n

\* The literal that precedes the slot of each field in an hour's block.
SlotLabel ==
    [T |-> " - Temp: ", W |-> "°C, Weather: ", H |-> "\n         Humidity: ",
     P |-> "%, Pressure: ", S |-> "hPa\n         Wind: ", D |-> "mph from ",
     G |-> " (gusts ", V |-> "mph)\n         Visibility: ", Dp |-> "m, Dew Point: "]

IsParseFailure(x) ==
    /\ x.t = "str" /\ Len(x.v) >= 2
    /\ x.v[1] = "Failed to parse the observations data: "
    /\ x.v[Len(x.v)] = ". The structure might have changed or the location is invalid."

\* A report with its title, in which every hour's block has all its slots.
IsCompleteReport(x) ==
    /\ x.t = "str" /\ x.v # <<>>
    /\ x.v[1] = "Hourly observations for "
    /\ \A f \in FieldKeys : Count(x.v, SlotLabel[f]) = Count(x.v, SlotLabel["T"])

\* C1: for every non-empty payload get_hourly_observations returns, and what
\* it returns is the complete report or one parse-failure string; it never
\* raises, whatever key is missing or value is of the wrong type.
C1_ReportOrFailure ==
    (pc = "done" /\ Truthy(arg)) =>
        /\ ret.k = "return"
        /\ IsParseFailure(ret.v) \/ IsCompleteReport(ret.v)

PeriodsOf(data) == data.v["SiteRep"].v["DV"].v["Location"].v["Period"].v
RepsOf(period) == period.v["Rep"].v

IsList(x) == x.t = "list"
\* A payload of the site-report schema whose reports carry a time.
WellFormedPayload(data) ==
    /\ IsObjWith(data, {"SiteRep"})
    /\ IsObjWith(data.v["SiteRep"], {"DV"})
    /\ IsObjWith(data.v["SiteRep"].v["DV"], {"Location"})
    /\ IsObjWith(data.v["SiteRep"].v["DV"].v["Location"], {"name", "Period"})
    /\ IsList(data.v["SiteRep"].v["DV"].v["Location"].v["Period"])
    /\ \A i \in 1..Len(PeriodsOf(data)) :
          /\ IsObjWith(PeriodsOf(data)[i], {"value", "Rep"})
          /\ PeriodsOf(data)[i].v["value"].t = "str"
          /\ IsList(PeriodsOf(data)[i].v["Rep"])
          /\ \A j \in 1..Len(RepsOf(PeriodsOf(data)[i])) :
                /\ IsObjWith(RepsOf(PeriodsOf(data)[i])[j], {"$"})
                /\ int(RepsOf(PeriodsOf(data)[i])[j].v["$"]).k = "return"

\* The payload with field f of report j of period i set to x.
WithField(data, i, j, f, x) ==
    Payload(data.v["SiteRep"].v["DV"].v["Location"].v["name"],
        PyList([a \in 1..Len(PeriodsOf(data)) |->
            MkPeriod(PeriodsOf(data)[a].v["value"],
                PyList([b \in 1..Len(RepsOf(PeriodsOf(data)[a])) |->
                    IF a = i /\ b = j
                    THEN PyObj((f :> x) @@ RepsOf(PeriodsOf(data)[a])[b].v)
                    ELSE RepsOf(PeriodsOf(data)[a])[b]]))]))

RECURSIVE RepsBefore(_, _)
RepsBefore(data, i) ==
    IF i = 1 THEN 0
    ELSE RepsBefore(data, i - 1) + Len(RepsOf(PeriodsOf(data)[i - 1]))

\* What fills the slot of field f when the report carries x there.
Rendered(f, x) == IF f = "W" THEN <<"Cloudy">> ELSE x.v

\* Every field missing from a report renders as Placeholder(f) in its slot,
\* the report does not fail, and the rest of the text is the text of the
\* payload that carries the field.
MissingFieldsRender(Placeholder(_)) ==
    (pc = "done" /\ WellFormedPayload(arg)) =>
        /\ ret.k = "return"
        /\ IsCompleteReport(ret.v)
        /\ \A i \in 1..Len(PeriodsOf(arg)) : \A j \in 1..Len(RepsOf(PeriodsOf(arg)[i])) :
           \A f \in FieldKeys \ DOMAIN RepsOf(PeriodsOf(arg)[i])[j].v :
              LET text == ret.v.v
                  k == Nth(text, SlotLabel[f], RepsBefore(arg, i) + j)
                  full == finish_call(WithField(arg, i, j, f, SampleFields[f]))
              IN  /\ text[k + 1] = Placeholder(f)
                  /\ full = Return(PyStr(SubSeq(text, 1, k)
                                         \o Rendered(f, SampleFields[f])
                                         \o SubSeq(text, k + 2, Len(text))))

\* C6 as stated: each of the nine optional fields, the weather code among
\* them, renders as "N/A" when missing, and nothing else changes.
C6_AllNineRenderNA == MissingFieldsRender(LAMBDA f : "N/A")

\* C6 as amended: a missing temperature, humidity, pressure, wind speed,
\* gust, direction, visibility or dew point renders as "N/A" in its slot and
\* a missing weather code renders as "Not available"; the report does not
\* fail and everything else is rendered as if the field were present.
C6_MissingFieldPlaceholder ==
    MissingFieldsRender(LAMBDA f : IF f = "W" THEN "Not available" ELSE "N/A")

\* A report lacking its humidity has been formatted: "Humidity: N/A%".
C6_Witness ==
    /\ pc = "done"
    /\ arg = FieldsPayload(1, 1, {<<1, 1>>}, {"H"})
    /\ ret.k = "return"
    /\ \E k \in 1..(Len(ret.v.v) - 2) :
          SubSeq(ret.v.v, k, k + 2) = <<"\n         Humidity: ", "N/A", "%, Pressure: ">>

MinutesPerDay == 24 * MinutesPerHour

\* The characters between the start of the first block and " - Temp: ".
TimeSlot(text) ==
    LET k == Nth(text, SlotLabel["T"], 1)
        j == CHOOSE j \in 1..(k - 1) :
                text[j] = "\n" /\ \A h \in (j + 1)..(k - 1) : text[h] # "\n"
    IN  SubSeq(text, j + 1, k - 1)

Digit(d) == DigitChars[d + 1]

\* The minutes since midnight a time field stands for: an int, or its
\* decimal numeral with or without a leading zero.
MinutesOf(t) ==
    {m \in 0..(MinutesPerDay - 1) :
        \/ t = PyNum(m)
        \/ t = PyStr(NatDigits(m))
        \/ t = PyStr(<<"0">> \o NatDigits(m))}

\* C7: a report whose time field is m minutes since midnight, 0 <= m <= 1439,
\* as an int or as a numeric string, is rendered at HH:MM with HH = m div 60
\* and MM = m mod 60, each of exactly two digits, MM in 0..59.
C7_TimeIsHHMM ==
    (pc = "done" /\ WellFormedPayload(arg) /\ Len(PeriodsOf(arg)) = 1
        /\ Len(RepsOf(PeriodsOf(arg)[1])) = 1) =>
        \A m \in MinutesOf(RepsOf(PeriodsOf(arg)[1])[1].v["$"]) :
            LET hh == m \div 60
                mm == m % 60
            IN  /\ ret.k = "return"
                /\ mm \in 0..59
                /\ TimeSlot(ret.v.v) =
                      <<Digit(hh \div 10), Digit(hh % 10), ":", Digit(mm \div 10), Digit(mm % 10)>>

\* The report at 90 minutes since midnight has been rendered at 01:30.
C7_Witness ==
    /\ pc = "done"
    /\ arg = TimePayload(PyNum(90))
    /\ ret.k = "return"
    /\ TimeSlot(ret.v.v) = <<"0", "1", ":", "3", "0">>

----------------------------------------------------------------------------
(* make_met_office_request applied to one request and what it meets        *)

Faults == {"ConnectError", "ConnectTimeout", "ReadTimeout"}
Statuses == {200, 204, 301, 404, 500}
Bodies ==
    {FileGarbage} \cup
    {FileJson(x) : x \in {TimePayload(HourOf(1)), EmptyObj, PyNone, PyList(<<>>),
                          Lit("x"), MkData(PyNone)}}
Upstreams == {Fault(e) : e \in Faults} \cup {Response(st, b) : st \in Statuses, b \in Bodies}

InitRequest ==
    /\ weather_codes = WEATHER_CODES
    /\ stations_file = FileMissing
    /\ met_office = NoUpstream
    /\ calls = NoCalls
    /\ arg \in [url : {station_url(PyStr(<<"3", "8", "4", "0">>))},
                params : {PyNone, EmptyObj, HourlyParams, PyObj("key" :> "caller's key")},
                upstream : Upstreams]
    /\ ret = Return(PyNone)
    /\ pc = "call"

Request ==
    /\ pc = "call"
    /\ ret' = make_met_office_request(arg.url, arg.params, arg.upstream)
    /\ pc' = "done"
    /\ UNCHANGED <<weather_codes, stations_file, met_office, calls, arg>>

NextRequest == Request

SpecRequest == InitRequest /\ [][NextRequest]_vars

\* Whether a value carries the status code: it is that number, or a str in
\* which its digits occur, or a container one of whose items carries it.
RECURSIVE Mentions(_, _)
Mentions(x, status) ==
    CASE x.t = "num" -> x.v = status
      [] x.t = "str" -> Contains(x.v, IntDigits(status))
      [] x.t = "list" -> \E i \in 1..Len(x.v) : Mentions(x.v[i], status)
      [] x.t = "obj" -> \E key \in DOMAIN x.v : Mentions(x.v[key], status)
      [] OTHER -> FALSE

Failed(up) == up.kind = "fault" \/ ~is_success(up.status) \/ up.body.state # "json"

\* The parts of C5 other than what a non-success status returns: no
\* exception reaches the caller; a transport fault and an unparsable body
\* return None; the parsed JSON value is returned exactly when the status is
\* a success and the body parses.
RequestNeverRaises ==
    /\ ret.ret.k = "return"
    /\ Failed(arg.upstream) => ret.ret.v = PyNone
    /\ ~Failed(arg.upstream) => ret.ret.v = arg.upstream.body.v

\* C5 as stated: on a non-success status the value returned is a failure
\* indication that carries the status code.
C5_FailureCarriesStatus ==
    pc = "done" =>
        /\ RequestNeverRaises
        /\ (arg.upstream.kind = "response" /\ ~is_success(arg.upstream.status)) =>
                Mentions(ret.ret.v, arg.upstream.status)

\* C5 as amended: on a non-success status the call returns None, which
\* carries no status code, and prints one line that carries it.
C5_FailureIsNoneStatusPrinted ==
    pc = "done" =>
        /\ RequestNeverRaises
        /\ (arg.upstream.kind = "response" /\ ~is_success(arg.upstream.status)) =>
                /\ ret.ret.v = PyNone
                /\ Len(ret.printed) = 1
                /\ ret.printed[1][1] = "HTTP Error: "
                /\ Mentions(PyStr(ret.printed[1]), arg.upstream.status)

\* A request that met a 404 has returned.
C5_Witness ==
    /\ pc = "done"
    /\ arg.upstream.kind = "response" /\ arg.upstream.status = 404
    /\ ret.ret = Return(PyNone)
    /\ SubSeq(ret.printed[1], 1, 4) = <<"HTTP Error: ", "4", "0", "4">>

----------------------------------------------------------------------------
(* Tool calls running together. A call is a coroutine: Invoke starts it,   *)
(* Resolve runs lookup_station_id, IssueGet sends the request, Respond     *)
(* takes what the API answers and Finish formats and returns. The steps    *)
(* of different calls interleave freely, which covers every schedule of    *)
(* the event loop. stations.json may be rewritten between any two steps.   *)

Calls == 1..MaxCalls

CallNames == {<<"a">>, <<"b">>, <<"z">>}

\* The successive contents of stations.json.
CallFiles ==
    << Directory(<<Record(<<"a">>, 1), Record(<<"A", "b">>, 2)>>),
       Directory(<<Record(<<"b">>, 1), Record(<<"a">>, 2)>>),
       Directory(<<PyObj("name" :> PyStr(<<"a">>))>>),
       FileJson(PyList(<<>>)) >>

NamedPayload(name) ==
    Payload(PyStr(name), PyList(<<MkPeriod(DateOf(1), PyList(<<MkRep(HourOf(1), {"H"})>>))>>))

CallUpstreams ==
    { Fault("ReadTimeout"), Response(404, FileGarbage), Response(200, FileGarbage),
      Response(200, FileJson(NamedPayload(<<"O", "n", "e">>))),
      Response(200, FileJson(EmptyObj)),
      Response(200, FileJson(PyObj("error" :> Lit("x")))),
      Response(200, FileJson(MkData(PyList(<<>>)))) }

IdleCall ==
    [pc |-> "idle", name |-> PyNone, seen |-> FileMissing, locid |-> PyNone,
     sent |-> <<>>, printed |-> <<>>, data |-> PyNone, result |-> Return(PyNone),
     trace |-> <<>>]

InitCalls ==
    /\ weather_codes = WEATHER_CODES
    /\ stations_file \in {CallFiles[i] : i \in 1..Len(CallFiles)}
    /\ \E up \in CallUpstreams :
          met_office = (<<"1">> :> up)
                       @@ (<<"2">> :> Response(200, FileJson(NamedPayload(<<"T", "w", "o">>))))
    /\ calls = [c \in Calls |-> IdleCall]
    /\ arg = PyNone
    /\ ret = Return(PyNone)
    /\ pc = "calls"

\* The host invokes the tool with a location name.
Invoke(c, name) ==
    /\ calls[c].pc = "idle"
    /\ calls' = [calls EXCEPT ![c].pc = "resolve", ![c].name = PyStr(name)]
    /\ UNCHANGED <<weather_codes, stations_file, met_office, arg, ret, pc>>

\* A plausible slip: the directory an earlier call loaded is kept and reused.
directory_read_cached(c) ==
    IF \E d \in Calls \ {c} : calls[d].trace # <<>>
    THEN calls[CHOOSE d \in Calls \ {c} : calls[d].trace # <<>>].seen
    ELSE stations_file

\* with open("stations.json", "r") as f: each call reads the file itself
directory_read(c) == stations_file

\* print(f"Error reading stations.json: {e}")
lookup_printed(file, query_name) ==
    LET r == lookup_try(file, query_name) IN
    IF r.k = "raise" /\ r.exc \in LookupCaught
    THEN << <<"Error reading stations.json: ">> \o (IF r.v.t = "str" THEN r.v.v ELSE <<r.exc>>) >>
    ELSE <<>>

\* locid = lookup_station_id(name); if not locid: return f"Location '{name}' not found ..."
Resolve(c) ==
    /\ calls[c].pc = "resolve"
    /\ LET r == lookup_station_id(directory_read(c), calls[c].name)
           printed == calls[c].printed \o lookup_printed(directory_read(c), calls[c].name)
       IN  calls' = [calls EXCEPT ![c] =
             IF r.k = "raise"
             THEN [@ EXCEPT !.pc = "raised", !.seen = stations_file, !.result = r,
                            !.printed = printed, !.trace = @ \o <<"resolve", "raise">>]
             ELSE IF resolution_missed(r.v)
             THEN [@ EXCEPT !.pc = "returned", !.seen = stations_file,
                            !.result = Return(NotFoundMessage(calls[c].name)),
                            !.printed = printed, !.trace = @ \o <<"resolve", "return">>]
             ELSE [@ EXCEPT !.pc = "fetch", !.seen = stations_file, !.locid = r.v,
                            !.printed = printed, !.trace = @ \o <<"resolve">>]]
    /\ UNCHANGED <<weather_codes, stations_file, met_office, arg, ret, pc>>

\* url, params, and make_met_office_request up to its await: the GET is sent
IssueGet(c) ==
    /\ calls[c].pc = "fetch"
    /\ calls' = [calls EXCEPT ![c].pc = "waiting",
                              ![c].sent = @ \o <<http_get(station_url(calls[c].locid), HourlyParams)>>,
                              ![c].trace = @ \o <<"fetch">>]
    /\ UNCHANGED <<weather_codes, stations_file, met_office, arg, ret, pc>>

\* The station id a URL asks for.
UrlStation(url) == PyStr(SubSeq(url, 3, Len(url)))

\* The rest of make_met_office_request: the answer arrives, data is set
Respond(c) ==
    /\ calls[c].pc = "waiting"
    /\ LET h == handle_response(UpstreamFor(met_office, UrlStation(calls[c].sent[1].url)))
       IN  calls' = [calls EXCEPT ![c].pc = "format",
                                  ![c].data = h.ret.v,
                                  ![c].printed = @ \o h.printed]
    /\ UNCHANGED <<weather_codes, stations_file, met_office, arg, ret, pc>>

\* if not data: return "Unable to fetch ..."; else format the report and return
Finish(c) ==
    /\ calls[c].pc = "format"
    /\ LET r == finish_call(calls[c].data)
       IN  calls' = [calls EXCEPT
                ![c].pc = IF r.k = "raise" THEN "raised" ELSE "returned",
                ![c].result = r,
                ![c].trace = @ \o (IF ~Truthy(calls[c].data) THEN <<"return">>
                                   ELSE IF r.k = "raise" THEN <<"format", "raise">>
                                   ELSE <<"format", "return">>)]
    /\ UNCHANGED <<weather_codes, stations_file, met_office, arg, ret, pc>>

\* Someone replaces stations.json by its next contents.
RewriteStations ==
    /\ \E i \in 1..Len(CallFiles), j \in 1..Len(CallFiles) :
          /\ i < j
          /\ stations_file = CallFiles[i]
          /\ stations_file' = CallFiles[j]
    /\ UNCHANGED <<weather_codes, met_office, calls, arg, ret, pc>>

NextCalls ==
    \/ \E c \in Calls, name \in CallNames : Invoke(c, name)
    \/ \E c \in Calls : Resolve(c)
    \/ \E c \in Calls : IssueGet(c)
    \/ \E c \in Calls : Respond(c)
    \/ \E c \in Calls : Finish(c)
    \/ RewriteStations

SpecCalls == InitCalls /\ [][NextCalls]_vars

----------------------------------------------------------------------------
(* Claims about the tool calls                                             *)

Ended(c) == calls[c].pc \in {"returned", "raised"}
Fetched(c) == calls[c].pc \in {"waiting", "format"} \/ (Ended(c) /\ calls[c].sent # <<>>)

\* No call sends more than one GET, and a call that reached its fetch sent
\* exactly one.
OneGetPerFetch ==
    \A c \in Calls :
        /\ Len(calls[c].sent) <= 1
        /\ Fetched(c) => Len(calls[c].sent) = 1
        /\ calls[c].pc \in {"idle", "resolve", "fetch"} => calls[c].sent = <<>>

\* C8: every make_met_office_request sends exactly one GET whatever it
\* meets, a tool call sends at most one, nothing is retried, and a call that
\* ends, ends by returning a result to its caller.
C8_OneGetAndReturns ==
    /\ OneGetPerFetch
    /\ \A c \in Calls : Ended(c) => calls[c].result.k = "return"

IsPrefix(s, t) == Len(s) <= Len(t) /\ SubSeq(t, 1, Len(s)) = s

\* The orders in which a call may run its steps.
StepOrders ==
    { <<"resolve", "return">>, <<"resolve", "raise">>,
      <<"resolve", "fetch", "return">>,
      <<"resolve", "fetch", "format", "return">>,
      <<"resolve", "fetch", "format", "raise">> }

\* C9: a call resolves, fetches, formats and returns in this order; its GET
\* goes out only after the resolver returned a station id and asks for that
\* id; the formatter runs only on data the fetch returned; a call the
\* resolver found no match for returns the "not found" message naming the
\* location and sends nothing; a call whose fetch failed returns a failure
\* message and formats nothing.
C9_ResolveFetchFormatReturn ==
    \A c \in Calls :
        LET call == calls[c]
            resolved == lookup_station_id(call.seen, call.name)
        IN  /\ \E order \in StepOrders : IsPrefix(call.trace, order)
            /\ Ended(c) => call.trace \in StepOrders
            /\ call.sent # <<>> =>
                  /\ IsPrefix(<<"resolve", "fetch">>, call.trace)
                  /\ resolved.k = "return" /\ resolved.v.t = "str"
                  /\ call.sent[1].url
                        = <<MET_OFFICE_API_BASE, "/wxobs/all/json/">> \o resolved.v.v
            /\ (\E k \in 1..Len(call.trace) : call.trace[k] = "format") =>
                  /\ call.data # PyNone
                  /\ Len(call.sent) = 1
            /\ (call.trace # <<>> /\ resolved = Return(PyNone)) =>
                  /\ call.pc = "returned"
                  /\ call.sent = <<>>
                  /\ call.result = Return(PyStr(<<"Location '">> \o call.name.v
                        \o <<"' not found. Please check the spelling or try a different location name.">>))
            /\ (Ended(c) /\ call.sent # <<>> /\ call.data = PyNone) =>
                  /\ call.result = Return(UnableToFetch)
                  /\ call.trace = <<"resolve", "fetch", "return">>

\* One call has run all four steps and another has returned "not found"
\* without sending anything.
C9_Witness ==
    \E c, d \in Calls :
        /\ calls[c].trace = <<"resolve", "fetch", "format", "return">>
        /\ IsCompleteReport(calls[c].result.v)
        /\ calls[d].trace = <<"resolve", "return">>
        /\ calls[d].sent = <<>>

\* C10: calls running together share no state they write: whatever the
\* interleaving, a call ends with the result it has when run alone over the
\* stations.json of the moment it read it and the same upstream answers;
\* the code table is never written.
C10_SameAsAlone ==
    /\ weather_codes = WEATHER_CODES
    /\ \A c \in Calls :
          Ended(c) =>
            calls[c].result = get_hourly_observations(calls[c].name, calls[c].seen, met_office)

\* Two calls for the same name have ended with different reports, each that
\* of the file it read: the file was rewritten between their reads.
C10_Witness ==
    \E c, d \in Calls :
        /\ Ended(c) /\ Ended(d)
        /\ calls[c].name = calls[d].name
        /\ calls[c].seen # calls[d].seen
        /\ IsCompleteReport(calls[c].result.v)
        /\ IsCompleteReport(calls[d].result.v)
        /\ calls[c].result # calls[d].result

=============================================================================
